---- MODULE Spec2Model ----
(***************************************************************************)
(* Model of src/events/consumer.js: the RabbitMQ consumer that dispatches  *)
(* queue messages to the auth / product / order / user-sync handlers.      *)
(*                                                                         *)
(* Execution model.  Node runs every callback to its next I/O wait before  *)
(* any other I/O completion is dispatched (promise continuations are       *)
(* microtasks).  One action of the model is therefore one event-loop turn: *)
(* a delivery, or the completion of one store / mail call, together with   *)
(* every continuation that completion makes runnable, up to and including  *)
(* channel.ack / channel.nack when the handler's promise settles.          *)
(***************************************************************************)
EXTENDS Integers, Sequences, FiniteSets, TLC

\* ---------------------------------------------------------------- bounds
MaxMsgs == 2
MaxItems == 2

Msgs == 1..MaxMsgs

\* ------------------------------------------------------------- constants
ProductQueue == "product_events_for_notifications"
OrderQueue == "order_events_for_notifications"
AuthQueue == "auth_events"
SyncQueue == "user_data_sync"
queues == {ProductQueue, OrderQueue, AuthQueue, SyncQueue}

UNDEF == "undefined"
UserIds == {"u1", "u2"}
StoreKeys == UserIds \cup {UNDEF}

\* A document of the User collection; exists = FALSE is "no document".
NoUser == [exists |-> FALSE, username |-> UNDEF, email |-> UNDEF, role |-> UNDEF]
Doc(username, email, role) ==
  [exists |-> TRUE, username |-> username, email |-> email, role |-> role]
ProfileA == Doc("a", "a@x", "seller")
ProfileB == Doc("b", "b@x", "buyer")

\* ------------------------------------------------------------ JS values
\* The values the remaining-stock expression can take.
JsUndefined == [t |-> "undefined", n |-> 0, productId |-> UNDEF]
JsNumber(n) == [t |-> "number", n |-> n, productId |-> UNDEF]
JsObject(rec) == [t |-> "object", n |-> rec.remainingQuantity, productId |-> rec.productId]

\* JavaScript truthiness of such a value (used by `x || "Unknown"`).
Truthy(v) ==
  CASE v.t = "undefined" -> FALSE
    [] v.t = "number" -> v.n # 0
    [] OTHER -> TRUE

\* Template-literal conversion `${v}`.
TemplateString(v) ==
  CASE v.t = "number" -> ToString(v.n)
    [] v.t = "object" -> "[object Object]"
    [] OTHER -> "undefined"

\* `${remainingQuantity || "Unknown"}`
OrUnknown(v) == IF Truthy(v) THEN TemplateString(v) ELSE "Unknown"

\* --------------------------------------------------------------- events
\* One shape for every decoded body: the envelope fields type/data and, for
\* the flat user-sync projection, id/username/email/role at the top level.
NoData ==
  [userId |-> UNDEF, seller |-> UNDEF, title |-> UNDEF, price |-> 0, quantity |-> 0,
   sellerIds |-> <<>>, productIds |-> <<>>, titles |-> <<>>, quantities |-> <<>>,
   remainingQuantities |-> <<>>,
   id |-> UNDEF, username |-> UNDEF, email |-> UNDEF, role |-> UNDEF]
NoEvent ==
  [type |-> UNDEF, data |-> NoData,
   id |-> UNDEF, username |-> UNDEF, email |-> UNDEF, role |-> UNDEF]

ProductIdOf(i) == "p" \o ToString(i)
TitleOf(i) == "t" \o ToString(i)

RQ(productId, remainingQuantity) ==
  [productId |-> productId, remainingQuantity |-> remainingQuantity]
\* The remainingQuantities sent with an order of n line items (products
\* p1..pn): a single item comes with its own record, at stock 0; several items
\* come with a record for p2 only, so that p1 has none and p2's record is not
\* at p2's position.
RemainingQuantitiesOf(n) ==
  IF n = 1 THEN << RQ("p1", 0) >> ELSE << RQ("p2", 5) >>

AuthTypes == {"user_created"}
ProductTypes == {"product_created", "product_updated", "product_deleted"}
OrderTypes == {"order_placed", "order_updated", "order_deleted"}

AuthEvents ==
  { [NoEvent EXCEPT !.type = "user_created", !.data.userId = u] : u \in UserIds }
  \cup { [NoEvent EXCEPT !.type = "user_deleted", !.data.userId = "u1"] }

ProductEvents ==
  { [NoEvent EXCEPT !.type = t, !.data.seller = u, !.data.title = "t1",
                    !.data.price = 9, !.data.quantity = 4]
      : t \in ProductTypes, u \in UserIds }
  \cup { [NoEvent EXCEPT !.type = "product_viewed", !.data.seller = "u1",
                         !.data.title = "t1", !.data.price = 9, !.data.quantity = 4] }

OrderData(userId, sellerIds) ==
  [NoData EXCEPT !.userId = userId, !.sellerIds = sellerIds,
                 !.productIds = [i \in DOMAIN sellerIds |-> ProductIdOf(i)],
                 !.titles = [i \in DOMAIN sellerIds |-> TitleOf(i)],
                 !.quantities = [i \in DOMAIN sellerIds |-> i],
                 !.remainingQuantities = RemainingQuantitiesOf(Len(sellerIds))]
SellerIdLists == UNION { { s \in [1..n -> UserIds] : s[1] = "u1" } : n \in 1..MaxItems }
OrderEvents ==
  { [NoEvent EXCEPT !.type = t, !.data = OrderData("u1", s)]
      : t \in OrderTypes, s \in SellerIdLists }
  \cup { [NoEvent EXCEPT !.type = "order_shipped",
                         !.data = OrderData("u1", << "u1" >>)] }

\* user_data_sync bodies: the flat projection {id, username, email, role} and
\* the envelope {type, data: {id, username, email, role}}.
SyncFlat(id, p) ==
  [NoEvent EXCEPT !.id = id, !.username = p.username, !.email = p.email, !.role = p.role]
SyncEnvelope(id, p) ==
  [NoEvent EXCEPT !.type = "user_updated", !.data.id = id, !.data.username = p.username,
                  !.data.email = p.email, !.data.role = p.role]
SyncEvents ==
  { SyncFlat(u, p) : u \in UserIds, p \in {ProfileA, ProfileB} }
  \cup { SyncEnvelope("u1", ProfileB) }

EventsOf(queue) ==
  CASE queue = AuthQueue -> AuthEvents
    [] queue = ProductQueue -> ProductEvents
    [] queue = OrderQueue -> OrderEvents
    [] OTHER -> SyncEvents

\* msg.content: the bytes of a delivery.  text = "json" carries the value the
\* text denotes; any other text is not JSON.
JsonContent(event) == [text |-> "json", value |-> event]
BadContent == [text |-> "not json", value |-> NoEvent]
ContentsOf(queue) == { JsonContent(e) : e \in EventsOf(queue) } \cup { BadContent }

\* JSON.parse(msg.content.toString()): the decoded value, or a SyntaxError.
JSONparse(content) ==
  IF content.text = "json"
    THEN [threw |-> FALSE, value |-> content.value]
    ELSE [threw |-> TRUE, value |-> NoEvent]

\* ---------------------------------------------------------------- state
VARIABLES store, msgs
vars == << store, msgs >>

\* store: the User collection, by external id.
\* msgs[m]: delivery m of channel.consume, in delivery order.
\*   pc       where the delivery callback is waiting
\*   user     the awaited userDetails / sellerDetails (buyer for an order)
\*   buyer    state of userDetailsPromise of an order event
\*   task     the sellerPromises of an order event, one per line item
\*   emails   the sendEmail calls that succeeded
\*   lookups  User.findOne calls issued; upserts: User.findOneAndUpdate calls
\*   errors   what the handler's own catch block logged
\*   acks, nacks: channel.ack / channel.nack calls for the message
NoMsg ==
  [queue |-> "none", content |-> BadContent, pc |-> "undelivered", user |-> NoUser,
   buyer |-> "none", task |-> <<>>, emails |-> {}, lookups |-> 0, upserts |-> 0,
   errors |-> {}, acks |-> 0, nacks |-> 0]

EventOf(r) == JSONparse(r.content).value

\* Initially u1 is known to the store and u2 is not.
InitStore == [k \in StoreKeys |-> IF k = "u1" THEN ProfileA ELSE NoUser]

Init ==
  /\ store = InitStore
  /\ msgs = [m \in Msgs |-> NoMsg]

\* Outcomes of an external call that returns.
CallOutcomes == {"ok", "error"}

\* ------------------------------------------------------ consumer envelope
\* Mutation of Settle: the two branches of the envelope exchanged.
SettleSwapped(r, outcome) ==
  IF outcome = "fulfilled"
    THEN [r EXCEPT !.pc = "settled", !.nacks = @ + 1]
    ELSE [r EXCEPT !.pc = "settled", !.acks = @ + 1]

\* try { await handler(event); channel.ack(msg) } catch { channel.nack(msg, false, false) }
Settle(r, outcome) ==
  IF outcome = "fulfilled"
    THEN [r EXCEPT !.pc = "settled", !.acks = @ + 1]
    ELSE [r EXCEPT !.pc = "settled", !.nacks = @ + 1]

\* The handler's async function ran to its end.
Returned(r) == Settle(r, "fulfilled")

\* ------------------------------------------------------- directory lookup
\* fetchUserDetails: the document, or null on a miss or a store error.
fetchUserDetails(st, userId, outcome) ==
  IF outcome = "ok" /\ st[userId].exists THEN st[userId] ELSE NoUser

\* ----------------------------------------------------------------- email
Email(kind, to, subject, item, lines, price, remaining) ==
  [kind |-> kind, to |-> to, subject |-> subject, item |-> item, lines |-> lines,
   price |-> price, remaining |-> remaining]
Line(title, quantity) == [title |-> title, quantity |-> quantity]

\* ---------------------------------------------------------- auth handler
handleAuthEventsCatch(r, error) ==
  Settle([r EXCEPT !.errors = @ \cup {error}], "fulfilled")

handleAuthEvents(r, event) ==
  IF event.type = "user_created"
    THEN [r EXCEPT !.pc = "lookup", !.lookups = @ + 1]
    ELSE Returned(r)

handleAuthEventsLookedUp(r, userDetails) ==
  IF userDetails.exists
    THEN [r EXCEPT !.pc = "send", !.user = userDetails]
    ELSE Returned([r EXCEPT !.user = userDetails])

WelcomeEmail(userDetails) ==
  Email("welcome", userDetails.email, "Welcome to Our Service", 0, <<>>, 0, "")

handleAuthEventsSent(r, outcome) ==
  IF outcome = "ok"
    THEN Returned([r EXCEPT !.emails = @ \cup {WelcomeEmail(r.user)}])
    ELSE handleAuthEventsCatch(r, "DeliveryError")

\* ------------------------------------------------------- product handler
handleProductEventsCatch(r, error) ==
  Settle([r EXCEPT !.errors = @ \cup {error}], "fulfilled")

handleProductEvents(r, event) ==
  IF event.type \in ProductTypes
    THEN [r EXCEPT !.pc = "lookup", !.lookups = @ + 1]
    ELSE Returned(r)

\* Mutation of handleProductEventsLookedUp: a missing seller is treated as an
\* error of the event instead of being skipped.
handleProductEventsLookedUpThrows(r, sellerDetails) ==
  IF sellerDetails.exists
    THEN [r EXCEPT !.pc = "send", !.user = sellerDetails]
    ELSE handleProductEventsCatch([r EXCEPT !.user = sellerDetails], "NotFound")

handleProductEventsLookedUp(r, sellerDetails) ==
  IF sellerDetails.exists
    THEN [r EXCEPT !.pc = "send", !.user = sellerDetails]
    ELSE Returned([r EXCEPT !.user = sellerDetails])

ProductSubject(type) ==
  CASE type = "product_created" -> "Product Created Successfully"
    [] type = "product_updated" -> "Product Updated Successfully"
    [] OTHER -> "Product Deleted Successfully"

\* Mutation of ProductEmail: the price is left out of the message.
ProductEmailNoPrice(event, sellerDetails) ==
  Email(event.type, sellerDetails.email, ProductSubject(event.type), 0,
        << Line(event.data.title, event.data.quantity) >>, 0, "")

ProductEmail(event, sellerDetails) ==
  Email(event.type, sellerDetails.email, ProductSubject(event.type), 0,
        << Line(event.data.title, event.data.quantity) >>, event.data.price, "")

handleProductEventsSent(r, outcome) ==
  IF outcome = "ok"
    THEN Returned([r EXCEPT !.emails = @ \cup {ProductEmail(EventOf(r), r.user)}])
    ELSE handleProductEventsCatch(r, "DeliveryError")

\* ----------------------------------------------------- user-sync handler
syncUserDataCatch(r, error) ==
  Settle([r EXCEPT !.errors = @ \cup {error}], "fulfilled")

syncUserData(r, event) == [r EXCEPT !.pc = "upsert", !.upserts = @ + 1]

\* User.findOneAndUpdate({ id }, update, { upsert: true }): an undefined field
\* of the update is not set.
findOneAndUpdate(st, id, update) ==
  [st EXCEPT ![id] =
     [exists |-> TRUE,
      username |-> IF update.username = UNDEF THEN @.username ELSE update.username,
      email |-> IF update.email = UNDEF THEN @.email ELSE update.email,
      role |-> IF update.role = UNDEF THEN @.role ELSE update.role]]

\* Mutation of syncUserDataStore: email is left out of the update.
syncUserDataStoreNoEmail(st, event, outcome) ==
  IF outcome = "ok"
    THEN findOneAndUpdate(st, event.id,
           [username |-> event.username, email |-> UNDEF, role |-> event.role])
    ELSE st

\* Mutation of syncUserDataStore: role is left out of the update.
syncUserDataStoreNoRole(st, event, outcome) ==
  IF outcome = "ok"
    THEN findOneAndUpdate(st, event.id,
           [username |-> event.username, email |-> event.email, role |-> UNDEF])
    ELSE st

syncUserDataStore(st, event, outcome) ==
  IF outcome = "ok"
    THEN findOneAndUpdate(st, event.id,
           [username |-> event.username, email |-> event.email, role |-> event.role])
    ELSE st

syncUserDataUpserted(r, outcome) ==
  IF outcome = "ok" THEN Returned(r) ELSE syncUserDataCatch(r, "StoreError")

\* --------------------------------------------------------- order handler
handleOrderEventsCatch(r, error) ==
  Settle([r EXCEPT !.errors = @ \cup {error}], "fulfilled")

\* event.data.remainingQuantities.find(p => p.productId === productId)?.remainingQuantity
findRemainingQuantity(remainingQuantities, productId) ==
  LET hits == { k \in DOMAIN remainingQuantities :
                  remainingQuantities[k].productId = productId }
      first == CHOOSE k \in hits : \A j \in hits : k <= j
  IN IF hits = {} THEN JsUndefined
     ELSE JsNumber(remainingQuantities[first].remainingQuantity)

\* The value bound to remainingQuantity in the seller task of line item index.
remainingQuantity(event, index) ==
  IF event.type = "order_deleted"
    THEN IF index \in DOMAIN event.data.remainingQuantities
           THEN JsObject(event.data.remainingQuantities[index])
           ELSE JsUndefined
    ELSE findRemainingQuantity(event.data.remainingQuantities,
                               event.data.productIds[index])

SellerSubject(type) ==
  CASE type = "order_placed" -> "New Order Received"
    [] type = "order_updated" -> "Order Updated"
    [] OTHER -> "Order Cancelled"

BuyerSubject(type) ==
  CASE type = "order_placed" -> "Order Placed"
    [] type = "order_updated" -> "Order Updated"
    [] OTHER -> "Order Cancelled"

SellerEmail(event, index, sellerDetails) ==
  Email("seller", sellerDetails.email, SellerSubject(event.type), index,
        << Line(event.data.titles[index], event.data.quantities[index]) >>, 0,
        OrUnknown(remainingQuantity(event, index)))

BuyerEmail(event, userDetails) ==
  Email("buyer", userDetails.email, BuyerSubject(event.type), 0,
        [i \in DOMAIN event.data.titles |->
           Line(event.data.titles[i], event.data.quantities[i])], 0, "")

\* Mutation of handleOrderEvents: no default case, every type is handled as
\* an order.
handleOrderEventsNoDefault(r, event) ==
  [r EXCEPT !.pc = "join", !.buyer = "pending",
            !.task = [i \in DOMAIN event.data.sellerIds |->
                        [pc |-> "lookup", user |-> NoUser]],
            !.lookups = @ + 1 + Len(event.data.sellerIds)]

\* Mutation of handleOrderEvents: the buyer lookup is not started with the
\* seller tasks.
handleOrderEventsBuyerLater(r, event) ==
  IF event.type \in OrderTypes
    THEN [r EXCEPT !.pc = "join", !.buyer = "none",
                   !.task = [i \in DOMAIN event.data.sellerIds |->
                               [pc |-> "lookup", user |-> NoUser]],
                   !.lookups = @ + Len(event.data.sellerIds)]
    ELSE Returned(r)

\* Mutation of handleOrderEvents: one seller task per distinct seller id.
handleOrderEventsDedup(r, event) ==
  IF event.type \in OrderTypes
    THEN LET firsts == { i \in DOMAIN event.data.sellerIds :
                           \A j \in 1..(i - 1) :
                             event.data.sellerIds[j] # event.data.sellerIds[i] }
         IN [r EXCEPT !.pc = "join", !.buyer = "pending",
                      !.task = [i \in firsts |-> [pc |-> "lookup", user |-> NoUser]],
                      !.lookups = @ + 1 + Cardinality(firsts)]
    ELSE Returned(r)

\* The synchronous start of a known order event: fetchUserDetails(userId) is
\* called, then sellerIds.map starts one task per line item, each of which
\* runs to its own fetchUserDetails(sellerId); the handler then waits on
\* Promise.all(sellerPromises).
handleOrderEvents(r, event) ==
  IF event.type \in OrderTypes
    THEN [r EXCEPT !.pc = "join", !.buyer = "pending",
                   !.task = [i \in DOMAIN event.data.sellerIds |->
                               [pc |-> "lookup", user |-> NoUser]],
                   !.lookups = @ + 1 + Len(event.data.sellerIds)]
    ELSE Returned(r)

\* const userDetails = await userDetailsPromise; if (userDetails) { ... sendEmail }
handleOrderEventsBuyer(r) ==
  IF r.user.exists THEN [r EXCEPT !.pc = "buyersend"] ELSE Returned(r)

\* Mutation of handleOrderEventsJoined: the handler ends after the seller
\* join without mailing the buyer.
handleOrderEventsJoinedNoBuyer(r) == Returned(r)

\* The continuation of `await Promise.all(sellerPromises)`.
handleOrderEventsJoined(r) ==
  IF r.buyer = "resolved" THEN handleOrderEventsBuyer(r) ELSE [r EXCEPT !.pc = "buyer"]

\* Mutation of PromiseAll: the join reacts to every task event, also after
\* it has already settled.
PromiseAllEveryTime(r) ==
  IF \E i \in DOMAIN r.task : r.task[i].pc = "failed"
    THEN handleOrderEventsCatch(r, "DeliveryError")
  ELSE IF \A i \in DOMAIN r.task : r.task[i].pc = "done"
    THEN handleOrderEventsJoined(r)
  ELSE r

\* Mutation of PromiseAll: Promise.allSettled, which waits for every task and
\* never rejects.
PromiseAllSettled(r) ==
  IF r.pc # "join" THEN r
  ELSE IF \A i \in DOMAIN r.task : r.task[i].pc \in {"done", "failed"}
    THEN handleOrderEventsJoined(r)
  ELSE r

\* Promise.all(sellerPromises), looked at after one seller task has moved:
\* rejects with the first rejection, fulfils when every task has fulfilled.
PromiseAll(r) ==
  IF r.pc # "join" THEN r
  ELSE IF \E i \in DOMAIN r.task : r.task[i].pc = "failed"
    THEN handleOrderEventsCatch(r, "DeliveryError")
  ELSE IF \A i \in DOMAIN r.task : r.task[i].pc = "done"
    THEN handleOrderEventsJoined(r)
  ELSE r

\* Mutation of sellerLookedUp: the `if (sellerDetails)` test is missing.
sellerLookedUpNoCheck(r, index, sellerDetails) ==
  [r EXCEPT !.task[index] = [pc |-> "send", user |-> sellerDetails]]

\* One seller task after its fetchUserDetails(sellerId) returned.
sellerLookedUp(r, index, sellerDetails) ==
  IF sellerDetails.exists
    THEN [r EXCEPT !.task[index] = [pc |-> "send", user |-> sellerDetails]]
    ELSE PromiseAll([r EXCEPT !.task[index] = [pc |-> "done", user |-> NoUser]])

\* One seller task after its sendEmail returned.
sellerSent(r, index, outcome) ==
  IF outcome = "ok"
    THEN PromiseAll([r EXCEPT
           !.emails = @ \cup {SellerEmail(EventOf(r), index, r.task[index].user)},
           !.task[index].pc = "done"])
    ELSE PromiseAll([r EXCEPT !.task[index].pc = "failed"])

\* userDetailsPromise settles.
buyerLookedUp(r, userDetails) ==
  LET r1 == [r EXCEPT !.buyer = "resolved", !.user = userDetails]
  IN IF r.pc = "buyer" THEN handleOrderEventsBuyer(r1) ELSE r1

\* The buyer's sendEmail returned.
buyerSent(r, outcome) ==
  IF outcome = "ok"
    THEN Returned([r EXCEPT !.emails = @ \cup {BuyerEmail(EventOf(r), r.user)}])
    ELSE handleOrderEventsCatch(r, "DeliveryError")

\* ------------------------------------------------------------- consumer
\* The delivery callback of consumeQueue, up to its first wait.  A SyntaxError
\* of JSON.parse is thrown before the try block: the callback's promise
\* rejects, nobody handles it, and the message is neither acked nor nacked.
consumeQueue(r) ==
  LET parsed == JSONparse(r.content)
      event == parsed.value
  IN IF parsed.threw THEN [r EXCEPT !.pc = "unhandled"]
     ELSE CASE r.queue = ProductQueue -> handleProductEvents(r, event)
            [] r.queue = OrderQueue -> handleOrderEvents(r, event)
            [] r.queue = AuthQueue -> handleAuthEvents(r, event)
            [] OTHER -> syncUserData(r, event)

\* -------------------------------------------------------------- actions
\* The broker delivers the next message of some queue.
\* Mutation of Deliver: a message is handed over only once every earlier
\* one has left its handler.
DeliverSerialized(m) ==
  /\ msgs[m].pc = "undelivered"
  /\ \A k \in Msgs : k < m => msgs[k].pc \in {"settled", "unhandled"}
  /\ \E q \in queues : \E c \in ContentsOf(q) :
       msgs' = [msgs EXCEPT ![m] = consumeQueue([NoMsg EXCEPT !.queue = q, !.content = c])]
  /\ UNCHANGED store

Deliver(m) ==
  /\ msgs[m].pc = "undelivered"
  /\ \A k \in Msgs : k < m => msgs[k].pc # "undelivered"
  /\ \E q \in queues : \E c \in ContentsOf(q) :
       msgs' = [msgs EXCEPT ![m] = consumeQueue([NoMsg EXCEPT !.queue = q, !.content = c])]
  /\ UNCHANGED store

AuthLookupReturn(m) ==
  /\ msgs[m].queue = AuthQueue /\ msgs[m].pc = "lookup"
  /\ \E outcome \in CallOutcomes :
       msgs' = [msgs EXCEPT ![m] = handleAuthEventsLookedUp(msgs[m],
                 fetchUserDetails(store, EventOf(msgs[m]).data.userId, outcome))]
  /\ UNCHANGED store

AuthSendReturn(m) ==
  /\ msgs[m].queue = AuthQueue /\ msgs[m].pc = "send"
  /\ \E outcome \in CallOutcomes :
       msgs' = [msgs EXCEPT ![m] = handleAuthEventsSent(msgs[m], outcome)]
  /\ UNCHANGED store

ProductLookupReturn(m) ==
  /\ msgs[m].queue = ProductQueue /\ msgs[m].pc = "lookup"
  /\ \E outcome \in CallOutcomes :
       msgs' = [msgs EXCEPT ![m] = handleProductEventsLookedUp(msgs[m],
                 fetchUserDetails(store, EventOf(msgs[m]).data.seller, outcome))]
  /\ UNCHANGED store

ProductSendReturn(m) ==
  /\ msgs[m].queue = ProductQueue /\ msgs[m].pc = "send"
  /\ \E outcome \in CallOutcomes :
       msgs' = [msgs EXCEPT ![m] = handleProductEventsSent(msgs[m], outcome)]
  /\ UNCHANGED store

SyncUpsertReturn(m) ==
  /\ msgs[m].queue = SyncQueue /\ msgs[m].pc = "upsert"
  /\ \E outcome \in CallOutcomes :
       /\ store' = syncUserDataStore(store, EventOf(msgs[m]), outcome)
       /\ msgs' = [msgs EXCEPT ![m] = syncUserDataUpserted(msgs[m], outcome)]

BuyerLookupReturn(m) ==
  /\ msgs[m].buyer = "pending"
  /\ \E outcome \in CallOutcomes :
       msgs' = [msgs EXCEPT ![m] = buyerLookedUp(msgs[m],
                 fetchUserDetails(store, EventOf(msgs[m]).data.userId, outcome))]
  /\ UNCHANGED store

SellerLookupReturn(m) ==
  /\ \E i \in DOMAIN msgs[m].task :
       /\ msgs[m].task[i].pc = "lookup"
       /\ \E outcome \in CallOutcomes :
            msgs' = [msgs EXCEPT ![m] = sellerLookedUp(msgs[m], i,
                      fetchUserDetails(store, EventOf(msgs[m]).data.sellerIds[i], outcome))]
  /\ UNCHANGED store

SellerSendReturn(m) ==
  /\ \E i \in DOMAIN msgs[m].task :
       /\ msgs[m].task[i].pc = "send"
       /\ \E outcome \in CallOutcomes :
            msgs' = [msgs EXCEPT ![m] = sellerSent(msgs[m], i, outcome)]
  /\ UNCHANGED store

BuyerSendReturn(m) ==
  /\ msgs[m].pc = "buyersend"
  /\ \E outcome \in CallOutcomes :
       msgs' = [msgs EXCEPT ![m] = buyerSent(msgs[m], outcome)]
  /\ UNCHANGED store

Step(m) ==
  \/ Deliver(m)
  \/ AuthLookupReturn(m)
  \/ AuthSendReturn(m)
  \/ ProductLookupReturn(m)
  \/ ProductSendReturn(m)
  \/ SyncUpsertReturn(m)
  \/ BuyerLookupReturn(m)
  \/ SellerLookupReturn(m)
  \/ SellerSendReturn(m)
  \/ BuyerSendReturn(m)

Next == \E m \in Msgs : Step(m)

Spec == Init /\ [][Next]_vars

\* No call has a timeout, and a call that never returns is a behaviour in
\* which its return step is never taken.  Under FairSpec every external call
\* returns (the event loop then runs its continuation); the broker need not
\* deliver anything.
Progress(m) ==
  \/ AuthLookupReturn(m)
  \/ AuthSendReturn(m)
  \/ ProductLookupReturn(m)
  \/ ProductSendReturn(m)
  \/ SyncUpsertReturn(m)
  \/ BuyerLookupReturn(m)
  \/ SellerLookupReturn(m)
  \/ SellerSendReturn(m)
  \/ BuyerSendReturn(m)

FairSpec == Spec /\ \A m \in Msgs : WF_vars(Progress(m))

\* ------------------------------------------------------------ vocabulary
Delivered(m) == msgs[m].pc # "undelivered"
Decoded(m) == Delivered(m) /\ ~JSONparse(msgs[m].content).threw
Type(m) == EventOf(msgs[m]).type
Data(m) == EventOf(msgs[m]).data
SettledM(m) == msgs[m].pc = "settled"
Acked(m) == msgs[m].acks = 1 /\ msgs[m].nacks = 0
Rejected(m) == msgs[m].nacks = 1 /\ msgs[m].acks = 0
NoSideEffect(m) ==
  msgs[m].lookups = 0 /\ msgs[m].emails = {} /\ msgs[m].upserts = 0
RecognizedTypes(queue) ==
  CASE queue = AuthQueue -> AuthTypes
    [] queue = ProductQueue -> ProductTypes
    [] queue = OrderQueue -> OrderTypes
    [] OTHER -> {}
SellerEmails(m) == { e \in msgs[m].emails : e.kind = "seller" }
BuyerEmails(m) == { e \in msgs[m].emails : e.kind = "buyer" }
KnownOrder(m) == Decoded(m) /\ msgs[m].queue = OrderQueue /\ Type(m) \in OrderTypes
Items(m) == DOMAIN msgs[m].task

\* ---------------------------------------------------------------- claims

\* The handler met an error: its catch block logged one, or a seller task of
\* an order event rejected.
HandlerError(m) ==
  \/ msgs[m].errors # {}
  \/ \E i \in DOMAIN msgs[m].task : msgs[m].task[i].pc = "failed"

\* C1: a delivered message whose body decodes and whose handler runs to its
\* end without any error is acknowledged and never rejected: such a message
\* is never nacked, has exactly one ack once its handler has ended, and, when
\* every external call returns, every decoded message is eventually acked
\* unless its handler met an error.
C1_SuccessIsAcked ==
  /\ [](\A m \in Msgs : (Decoded(m) /\ ~HandlerError(m)) => msgs[m].nacks = 0)
  /\ [](\A m \in Msgs : (SettledM(m) /\ ~HandlerError(m)) => Acked(m))
  /\ \A m \in Msgs : Decoded(m) ~> (Acked(m) \/ HandlerError(m))

\* A product event whose lookup and send both returned, acked with its email.
C1_Witness ==
  \E m \in Msgs :
    /\ Decoded(m) /\ msgs[m].queue = ProductQueue
    /\ SettledM(m) /\ Acked(m) /\ msgs[m].emails # {} /\ msgs[m].errors = {}

\* C2: a product event whose seller lookup succeeded and whose email send
\* failed is rejected without requeue and never acknowledged.
C2_ProductSendFailureRejected ==
  \A m \in Msgs :
    ( /\ Decoded(m) /\ msgs[m].queue = ProductQueue /\ Type(m) \in ProductTypes
      /\ msgs[m].user.exists /\ "DeliveryError" \in msgs[m].errors )
    => Rejected(m)

\* C3: an order event one of whose per-seller sends failed is rejected
\* without requeue and not acknowledged.
C3_SellerSendFailureRejected ==
  \A m \in Msgs :
    ( KnownOrder(m) /\ \E i \in Items(m) : msgs[m].task[i].pc = "failed" )
    => Rejected(m)

\* C4: a user_data_sync message whose upsert failed is rejected without
\* requeue and never acknowledged.
C4_UpsertFailureRejected ==
  \A m \in Msgs :
    ( Decoded(m) /\ msgs[m].queue = SyncQueue /\ "StoreError" \in msgs[m].errors )
    => Rejected(m)

\* C5: a delivered message whose body is not JSON is rejected without
\* requeue, is never acknowledged, and causes no lookup, send or upsert.
C5_MalformedRejected ==
  \A m \in Msgs :
    ( Delivered(m) /\ JSONparse(msgs[m].content).threw )
    => ( Rejected(m) /\ NoSideEffect(m) )

\* A decoded message of the auth, product or order queue whose type its
\* handler has no branch for.
Unrecognized(m) ==
  /\ Decoded(m)
  /\ msgs[m].queue \in {AuthQueue, ProductQueue, OrderQueue}
  /\ Type(m) \notin RecognizedTypes(msgs[m].queue)

\* C6: on the auth, product and order queues a message whose type the
\* queue's handler does not recognize is acknowledged, and no lookup, email
\* send or upsert is made for it.
C6_UnknownTypeAckedNoEffect ==
  \A m \in Msgs :
    Unrecognized(m) =>
      ( SettledM(m) /\ Acked(m) /\ NoSideEffect(m)
        /\ msgs[m].task = <<>> /\ msgs[m].buyer = "none" /\ msgs[m].errors = {} )

\* An unrecognized order event and an unrecognized product event, both acked.
C6_Witness ==
  \E m, k \in Msgs :
    /\ Unrecognized(m) /\ msgs[m].queue = OrderQueue /\ Acked(m)
    /\ Unrecognized(k) /\ msgs[k].queue = ProductQueue /\ Acked(k)

\* No user_data_sync message was delivered: the store is as it was.
NoSync == \A k \in Msgs : msgs[k].queue # SyncQueue
AllTasksDone(m) == \A i \in Items(m) : msgs[m].task[i].pc = "done"
SellerFound(m, i) == msgs[m].task[i].user.exists
\* The seller email of line item i, as the event and the looked-up seller
\* determine it.
IsSellerEmailOf(e, m, i) ==
  /\ e.kind = "seller" /\ e.item = i
  /\ e.to = msgs[m].task[i].user.email
  /\ e.subject = SellerSubject(Type(m))
  /\ e.lines = << Line(Data(m).titles[i], Data(m).quantities[i]) >>
\* The buyer's summary email: one line per line item, in order.
IsBuyerEmailOf(e, m) ==
  /\ e.kind = "buyer"
  /\ e.to = msgs[m].user.email
  /\ e.subject = BuyerSubject(Type(m))
  /\ Len(e.lines) = Len(Data(m).sellerIds)
  /\ \A i \in 1..Len(Data(m).sellerIds) :
       e.lines[i] = Line(Data(m).titles[i], Data(m).quantities[i])

\* C7: an order event with n line items, every seller lookup and every send
\* successful, has sent when its handler ends exactly n seller emails, one per
\* line item i to the address looked up for sellerIds[i], and exactly one
\* buyer email if the buyer lookup succeeded, none if not; and it is acked.
C7_OrderAllSent ==
  \A m \in Msgs :
    ( /\ KnownOrder(m) /\ SettledM(m) /\ AllTasksDone(m)
      /\ \A i \in Items(m) : SellerFound(m, i)
      /\ "DeliveryError" \notin msgs[m].errors )
    =>
    ( /\ Items(m) = 1..Len(Data(m).sellerIds)
      /\ Cardinality(SellerEmails(m)) = Len(Data(m).sellerIds)
      /\ \A i \in Items(m) :
           /\ \E e \in SellerEmails(m) : IsSellerEmailOf(e, m, i)
           /\ NoSync => msgs[m].task[i].user = store[Data(m).sellerIds[i]]
      /\ Cardinality(BuyerEmails(m)) = IF msgs[m].user.exists THEN 1 ELSE 0
      /\ \A e \in BuyerEmails(m) : IsBuyerEmailOf(e, m)
      /\ NoSync /\ msgs[m].user.exists => msgs[m].user = store[Data(m).userId]
      /\ Acked(m) )

\* Two line items, both sellers found and mailed, the buyer mailed, acked.
C7_Witness ==
  \E m \in Msgs :
    /\ KnownOrder(m) /\ SettledM(m) /\ Acked(m)
    /\ Len(Data(m).sellerIds) = 2
    /\ AllTasksDone(m) /\ \A i \in Items(m) : SellerFound(m, i)
    /\ Cardinality(SellerEmails(m)) = 2
    /\ Cardinality(BuyerEmails(m)) = 1

\* C8: in an order event where some seller lookup returned absent and no send
\* failed, an absent seller gets no email, a found seller gets the email of
\* its line item, the buyer (if found) gets one summary email listing all n
\* line items, and the message is acked with no error logged by the handler.
C8_AbsentSellerSkipped ==
  \A m \in Msgs :
    ( /\ KnownOrder(m) /\ SettledM(m) /\ AllTasksDone(m)
      /\ \E i \in Items(m) : ~SellerFound(m, i)
      /\ "DeliveryError" \notin msgs[m].errors )
    =>
    ( /\ \A i \in Items(m) :
           IF SellerFound(m, i)
             THEN /\ \E e \in SellerEmails(m) : e.item = i
                  /\ \A e \in SellerEmails(m) : e.item = i => IsSellerEmailOf(e, m, i)
             ELSE \A e \in SellerEmails(m) : e.item # i
      /\ Cardinality(BuyerEmails(m)) = IF msgs[m].user.exists THEN 1 ELSE 0
      /\ \A e \in BuyerEmails(m) : IsBuyerEmailOf(e, m)
      /\ msgs[m].errors = {}
      /\ Acked(m) )

\* Sellers u1 (found) and u2 (not in the store): one seller email, and the
\* buyer's summary of both line items.
C8_Witness ==
  \E m \in Msgs :
    /\ KnownOrder(m) /\ Type(m) = "order_deleted" /\ SettledM(m) /\ Acked(m)
    /\ Len(Data(m).sellerIds) = 2 /\ AllTasksDone(m)
    /\ SellerFound(m, 1) /\ ~SellerFound(m, 2)
    /\ Cardinality(SellerEmails(m)) = 1
    /\ \E e \in BuyerEmails(m) : Len(e.lines) = 2

\* C9: a user_created event or a product event whose lookup returned absent
\* sends no email, logs no handler error, and is acked.
C9_AbsentUserSilentlySkipped ==
  \A m \in Msgs :
    ( /\ Decoded(m) /\ msgs[m].queue \in {AuthQueue, ProductQueue}
      /\ Type(m) \in RecognizedTypes(msgs[m].queue)
      /\ SettledM(m) /\ ~msgs[m].user.exists )
    =>
    ( msgs[m].lookups = 1 /\ msgs[m].emails = {} /\ msgs[m].errors = {} /\ Acked(m) )

\* A user_created event and a product event, both with an absent user, acked.
C9_Witness ==
  \E m, k \in Msgs :
    /\ Decoded(m) /\ msgs[m].queue = AuthQueue /\ Type(m) = "user_created"
    /\ SettledM(m) /\ ~msgs[m].user.exists /\ Acked(m)
    /\ Decoded(k) /\ msgs[k].queue = ProductQueue /\ Type(k) \in ProductTypes
    /\ SettledM(k) /\ ~msgs[k].user.exists /\ Acked(k)

\* The remaining stock of line item i as C10 states it: the remainingQuantity
\* of the first record whose productId is productIds[i], else "Unknown".
StatedRemaining(data, i) ==
  LET hits == { k \in DOMAIN data.remainingQuantities :
                  data.remainingQuantities[k].productId = data.productIds[i] }
      first == CHOOSE k \in hits : \A j \in hits : k <= j
  IN IF hits = {} THEN "Unknown"
     ELSE ToString(data.remainingQuantities[first].remainingQuantity)

\* C10: for every order event type and line item i, the remaining stock shown
\* in the seller email of item i is the one found by productId.
C10_RemainingByProductId ==
  \A m \in Msgs :
    KnownOrder(m) =>
      \A e \in SellerEmails(m) : e.remaining = StatedRemaining(Data(m), e.item)


\* A decoded user_data_sync message carrying the flat projection
\* {id, username, email, role}.
SyncFlatMsg(m) ==
  Decoded(m) /\ msgs[m].queue = SyncQueue /\ EventOf(msgs[m]).id # UNDEF
\* ... whose upsert returned successfully.
SyncedOk(m) == SyncFlatMsg(m) /\ SettledM(m) /\ msgs[m].errors = {}
\* The record a sync event describes.
DocOf(event) == Doc(event.username, event.email, event.role)

\* C11: user sync is idempotent.  A successful upsert of a sync event leaves
\* the record of its id holding the event's fields, and leaves the whole
\* store unchanged when that record already holds them (the event handled a
\* second time, whatever else ran in between); and once the same event has
\* been handled twice, no different event for that id being around, the
\* record of its id holds those fields.
C11_SyncIdempotent ==
  /\ [](\A m, k \in Msgs :
          ( /\ m # k /\ SyncedOk(m) /\ SyncedOk(k)
            /\ msgs[m].content = msgs[k].content
            /\ \A j \in Msgs :
                 (SyncFlatMsg(j) /\ EventOf(msgs[j]).id = EventOf(msgs[m]).id)
                   => msgs[j].content = msgs[m].content )
          => store[EventOf(msgs[m]).id] = DocOf(EventOf(msgs[m])))
  /\ [][\A m \in Msgs :
          (SyncFlatMsg(m) /\ msgs[m].pc = "upsert" /\ SyncedOk(m)')
          => /\ store'[EventOf(msgs[m]).id] = DocOf(EventOf(msgs[m]))
             /\ store[EventOf(msgs[m]).id] = DocOf(EventOf(msgs[m])) => store' = store]_vars

\* The same event for the unknown user u2 handled twice: one record for u2.
C11_Witness ==
  \E m, k \in Msgs :
    /\ m # k /\ SyncedOk(m) /\ SyncedOk(k)
    /\ msgs[m].content = msgs[k].content
    /\ EventOf(msgs[m]).id = "u2"
    /\ store["u2"] = DocOf(EventOf(msgs[m]))


\* A delivered message whose handler is waiting for a call to return.
InFlight(m) == Delivered(m) /\ ~SettledM(m) /\ msgs[m].pc # "unhandled"

\* C12: the consumer does not serialize handling.  The next message can be
\* delivered whatever the earlier messages are doing, and every handler that
\* waits for a call can take its next step whatever the other messages are
\* doing; so several messages of one queue are in flight together and a
\* later one can be settled before an earlier one.
C12_NotSerialized ==
  \A m \in Msgs :
    /\ (msgs[m].pc = "undelivered" /\ \A k \in Msgs : k < m => Delivered(k))
         => ENABLED Deliver(m)
    /\ InFlight(m) => ENABLED Progress(m)

\* Two messages of one queue: the later one has made its calls and is
\* settled while the earlier one still waits for its first call to return.
C12_Witness ==
  \E m, k \in Msgs :
    /\ m < k /\ msgs[m].queue = msgs[k].queue
    /\ InFlight(m) /\ msgs[m].emails = {} /\ msgs[m].upserts = 0
    /\ SettledM(k) /\ (msgs[k].lookups >= 1 \/ msgs[k].upserts = 1)


\* A message whose handling failed: a call of its handler raised, or its
\* body could not be decoded.
Failed(k) == HandlerError(k) \/ msgs[k].pc = "unhandled"

\* C13: a failure while handling one message does not keep any other
\* delivered message from being settled: with every external call returning,
\* every other delivered message is eventually acked or nacked.
C13_OthersEventuallySettled ==
  \A m, k \in Msgs :
    m # k => ((Delivered(m) /\ Failed(k)) ~> SettledM(m))

\* The part of C13 the code keeps: every other message whose body decodes
\* is eventually settled.
C13_DecodedOthersEventuallySettled ==
  \A m, k \in Msgs :
    m # k => ((Decoded(m) /\ Failed(k)) ~> SettledM(m))


\* A decoded product_created message.
ProductCreated(m) ==
  Decoded(m) /\ msgs[m].queue = ProductQueue /\ Type(m) = "product_created"

\* C14: a product_created event whose seller lookup found the seller and
\* whose send succeeded has sent exactly one email, to the looked-up address,
\* carrying the event's title, price and quantity, whatever the other
\* messages are doing; and no product_created event ever issues more than
\* one lookup or sends more than one email.
C14_ProductCreatedOneEmail ==
  \A m \in Msgs :
    ProductCreated(m) =>
      /\ msgs[m].lookups = 1 /\ Cardinality(msgs[m].emails) <= 1
      /\ (SettledM(m) /\ msgs[m].user.exists /\ msgs[m].errors = {})
           => msgs[m].emails =
                { [kind |-> "product_created", to |-> msgs[m].user.email,
                   subject |-> "Product Created Successfully", item |-> 0,
                   lines |-> << [title |-> Data(m).title,
                                 quantity |-> Data(m).quantity] >>,
                   price |-> Data(m).price, remaining |-> ""] }

\* A product_created email has gone out while another message is still
\* being handled.
C14_Witness ==
  \E m, k \in Msgs :
    /\ m # k /\ InFlight(k)
    /\ ProductCreated(m) /\ SettledM(m) /\ msgs[m].user.exists
    /\ msgs[m].errors = {} /\ Cardinality(msgs[m].emails) = 1
    /\ Data(m).price # 0


\* A seller task of m whose send failed.
SellerSendFailed(m) == \E i \in Items(m) : msgs[m].task[i].pc = "failed"
\* The buyer's sendEmail of m has been called.
BuyerSendIssued(m) == msgs[m].pc = "buyersend" \/ BuyerEmails(m) # {}

\* C15: within one order event the buyer's email is sent only after every
\* seller task has completed, and when a seller send has failed the handler
\* never reaches the buyer step: no buyer email is sent, whether or not the
\* buyer lookup found the buyer.
C15_BuyerAfterSellers ==
  \A m \in Msgs :
    KnownOrder(m) =>
      /\ BuyerSendIssued(m) => AllTasksDone(m)
      /\ SellerSendFailed(m) =>
           /\ ~BuyerSendIssued(m) /\ msgs[m].pc = "settled"
           /\ msgs[m].errors = {"DeliveryError"}

\* One order whose seller send failed after the buyer had been found, with
\* another seller email already out; and one order whose buyer email went
\* out after all its seller tasks.
C15_Witness ==
  \E m, k \in Msgs :
    /\ KnownOrder(m) /\ SellerSendFailed(m) /\ SellerEmails(m) # {}
    /\ msgs[m].buyer = "resolved" /\ msgs[m].user.exists /\ BuyerEmails(m) = {}
    /\ KnownOrder(k) /\ BuyerEmails(k) # {} /\ AllTasksDone(k)


\* C16: in an order event the buyer lookup is issued in the delivery step
\* itself, when no seller task has got further than its own lookup, and from
\* then on it is outstanding or resolved independently of the seller tasks:
\* while outstanding it can return whatever the seller tasks are doing.
C16_BuyerLookupConcurrent ==
  /\ [](\A m \in Msgs :
          KnownOrder(m) =>
            /\ msgs[m].buyer \in {"pending", "resolved"}
            /\ msgs[m].buyer = "pending" => ENABLED BuyerLookupReturn(m))
  /\ [][\A m \in Msgs :
          (msgs[m].pc = "undelivered" /\ KnownOrder(m)')
          => /\ msgs'[m].buyer = "pending"
             /\ \A i \in DOMAIN msgs'[m].task : msgs'[m].task[i].pc = "lookup"]_vars

\* One order whose buyer lookup returned between its seller tasks (one task
\* finished, one still looking up), and one order whose buyer lookup is
\* still outstanding after all its seller tasks are done.
C16_Witness ==
  \E m, k \in Msgs :
    /\ KnownOrder(m) /\ msgs[m].buyer = "resolved" /\ msgs[m].pc = "join"
    /\ \E i, j \in Items(m) :
         msgs[m].task[i].pc = "done" /\ msgs[m].task[j].pc = "lookup"
    /\ KnownOrder(k) /\ msgs[k].buyer = "pending" /\ msgs[k].pc = "buyer"
    /\ AllTasksDone(k) /\ SellerEmails(k) # {}


\* The line items of order m that name seller id s.
ItemsOfSeller(m, s) ==
  { i \in DOMAIN Data(m).sellerIds : Data(m).sellerIds[i] = s }

\* C17: lookups are neither cached nor deduplicated.  An order event with n
\* line items has one seller task per line item and has issued n seller
\* lookups plus one buyer lookup; every line item whose task found its seller
\* and finished has its own email, so once all tasks are done a seller id
\* has as many emails as it has line items whose lookup found it.
C17_NoLookupDedup ==
  \A m \in Msgs :
    KnownOrder(m) =>
      /\ Items(m) = DOMAIN Data(m).sellerIds
      /\ msgs[m].lookups = Len(Data(m).sellerIds) + 1
      /\ \A i \in Items(m) :
           (msgs[m].task[i].pc = "done" /\ SellerFound(m, i))
             => \E e \in SellerEmails(m) : IsSellerEmailOf(e, m, i)
      /\ AllTasksDone(m) =>
           \A s \in UserIds :
             Cardinality({ e \in SellerEmails(m) : e.item \in ItemsOfSeller(m, s) })
               = Cardinality({ i \in ItemsOfSeller(m, s) : SellerFound(m, i) })

\* An order naming the same seller in both line items: three lookups, two
\* emails to the one address.
C17_Witness ==
  \E m \in Msgs :
    /\ KnownOrder(m) /\ AllTasksDone(m)
    /\ Len(Data(m).sellerIds) = 2 /\ Data(m).sellerIds[1] = Data(m).sellerIds[2]
    /\ msgs[m].lookups = 3 /\ Cardinality(SellerEmails(m)) = 2
    /\ \A e, f \in SellerEmails(m) : e.to = f.to


\* A decoded user_data_sync message in the envelope shape {type, data}.
SyncEnvelopeMsg(m) ==
  Decoded(m) /\ msgs[m].queue = SyncQueue /\ Data(m).id # UNDEF

\* C18: the successful upsert of an envelope-shaped sync message leaves the
\* record keyed by data.id holding data.username, data.email and data.role,
\* and leaves every record with another id as it was.
C18_EnvelopeUpsertsDataId ==
  [][\A m \in Msgs :
       ( /\ SyncEnvelopeMsg(m) /\ msgs[m].pc = "upsert"
         /\ msgs'[m].pc = "settled" /\ msgs'[m].errors = {} )
       => /\ store'[Data(m).id] = DocOf(Data(m))
          /\ \A id \in StoreKeys \ {Data(m).id} : store'[id] = store[id]]_vars


\* C19: every delivered message is settled at most once: ack and nack
\* together are called once for a settled message and not at all for any
\* other, under every interleaving.
C19_SettledAtMostOnce ==
  \A m \in Msgs :
    /\ msgs[m].acks + msgs[m].nacks <= 1
    /\ SettledM(m) <=> msgs[m].acks + msgs[m].nacks = 1

\* Two messages handled together and both settled, one of them an order that
\* was settled by a failed seller send while its other seller task went on
\* to finish.
C19_Witness ==
  \E m, k \in Msgs :
    /\ m # k /\ SettledM(k) /\ msgs[k].acks + msgs[k].nacks = 1
    /\ KnownOrder(m) /\ SettledM(m) /\ msgs[m].acks + msgs[m].nacks = 1
    /\ \E i, j \in Items(m) :
         msgs[m].task[i].pc = "failed" /\ msgs[m].task[j].pc = "done"


\* C20: concurrent sync events for one id leave one whole record.  The record
\* of every id is the initial one or, field for field, that of one sync
\* event for this id whose upsert succeeded; so after two sync events for
\* the id are settled the record equals the first one's or the second one's
\* fields, never a mix, and which of the two is not fixed by the order of
\* delivery.
C20_ConcurrentSyncOneOfBoth ==
  \A id \in UserIds :
    /\ \/ store[id] = InitStore[id]
       \/ \E m \in Msgs :
            SyncedOk(m) /\ EventOf(msgs[m]).id = id /\ store[id] = DocOf(EventOf(msgs[m]))
    /\ \A m, k \in Msgs :
         ( /\ m < k /\ SyncedOk(m) /\ SyncedOk(k)
           /\ EventOf(msgs[m]).id = id /\ EventOf(msgs[k]).id = id )
         => store[id] \in {DocOf(EventOf(msgs[m])), DocOf(EventOf(msgs[k]))}

\* Two different sync events for one id, both settled, and the record holds
\* the fields of the one delivered first.
C20_Witness ==
  \E m, k \in Msgs :
    /\ m < k /\ SyncedOk(m) /\ SyncedOk(k)
    /\ EventOf(msgs[m]).id = EventOf(msgs[k]).id
    /\ DocOf(EventOf(msgs[m])) # DocOf(EventOf(msgs[k]))
    /\ store[EventOf(msgs[m]).id] = DocOf(EventOf(msgs[m]))

====
